---- MODULE Spec2Model ----
(***************************************************************************)
(* Peer state machine of the Diameter library.                             *)
(*                                                                         *)
(* The repository builds three state machines on its FSM engine:           *)
(*   "diameter"  NewDiameterFSM          (state/peer_states.go)            *)
(*   "client"    Client.InitializeFSM    (client/state_machine.go)         *)
(*   "server"    Server.InitializeFSM    (server/state_machine.go)         *)
(* One behaviour of the model follows one FSM object of one of the three   *)
(* kinds; Trigger is called on it by three concurrent callers (the reader  *)
(* of the connection, a timer and the application).  Trigger is modelled   *)
(* statement by statement: lock, lookup, run the actions, update the       *)
(* state, return (the deferred unlock).                                    *)
(***************************************************************************)
EXTENDS Integers, Sequences, FiniteSets, TLC

VARIABLES flavor, state, mu, pc, call, fresh

vars == <<flavor, state, mu, pc, call, fresh>>

(* The reader of one peer's connection (server/server.go handlePeer):       *)
(* inbox is what the transport holds for the next Read, arrived the         *)
(* messages the remote peer sent, buffer the bytes of the last Read, rd     *)
(* the position of the reader, handled the record of what handleMessage     *)
(* did with each message, written the messages written on the connection.   *)
VARIABLES inbox, arrived, buffer, rd, handled, written

readerVars == <<inbox, arrived, buffer, rd, handled, written>>

(* The codec (message/message.go, message/avp.go): one message under way    *)
(* from its constructor through Encode and DecodeMessage.                   *)
VARIABLES cRequest, cMsg, cBytes, cDecoded, cStage

codecVars == <<cRequest, cMsg, cBytes, cDecoded, cStage>>

(* One Accept call on a listener (transport/listerner.go) and the goroutine *)
(* it starts.                                                               *)
VARIABLES protocol, native, worker, accept, timer, result

acceptVars == <<protocol, native, worker, accept, timer, result>>

(* One call of a function of the message package: its name, its argument   *)
(* and what it returned.                                                    *)
VARIABLES fnName, fnArg, fnRet

fnVars == <<fnName, fnArg, fnRet>>

(* A client: heap the FSM objects made by NewFSM, cFsm the one c.fsm points  *)
(* to, cConn the connection in c.conn, dialed the connections opened,       *)
(* EventChan the event queue, loops the Run goroutines, user the code that  *)
(* calls the client, connected what each Connect of that code left,         *)
(* triggered what each Trigger of a Run loop did.                           *)
VARIABLES heap, cFsm, cConn, dialed, EventChan, loops, user, connected,
          triggered

clientVars ==
  <<heap, cFsm, cConn, dialed, EventChan, loops, user, connected, triggered>>

(* A specification moves the variables of one component; the others keep   *)
(* their initial value.                                                     *)
Unused == "unused"

ReaderUnused ==
  /\ inbox = Unused /\ arrived = Unused /\ buffer = Unused
  /\ rd = Unused /\ handled = Unused /\ written = Unused

CodecUnused ==
  /\ cRequest = Unused /\ cMsg = Unused /\ cBytes = Unused
  /\ cDecoded = Unused /\ cStage = Unused

AcceptUnused ==
  /\ protocol = Unused /\ native = Unused /\ worker = Unused
  /\ accept = Unused /\ timer = Unused /\ result = Unused

FnUnused ==
  /\ fnName = Unused
  /\ fnArg = Unused
  /\ fnRet = Unused

ClientUnused ==
  /\ heap = Unused
  /\ cFsm = Unused
  /\ cConn = Unused
  /\ dialed = Unused
  /\ EventChan = Unused
  /\ loops = Unused
  /\ user = Unused
  /\ connected = Unused
  /\ triggered = Unused

others == <<readerVars, codecVars, acceptVars, fnVars, clientVars>>

Flavors == {"diameter", "client", "server"}

(* The callers of Trigger on one peer's FSM. *)
Callers == {"reader", "timer", "app"}

(* ---------------- states and events: state/peer_states.go -------------- *)
Closed == "Closed"
WaitConnectionAck == "Wait-Conn-Ack"
WaitICEA == "Wait-I-CEA"
Elect == "Elect"
WaitReturns == "Wait-Returns"
ROpen == "R-Open"
IOpen == "I-Open"
Closing == "Closing"

Start == "Start"
RConnCER == "R-Conn-CER"
RcvConnAck == "Rcv-Conn-Ack"
RcvConnNack == "Rcv-Conn-Nack"
Timeout == "Timeout"
RcvCER == "Rcv-CER"
RcvCEA == "Rcv-CEA"
RcvNonCEA == "Rcv-Non-CEA"
PeerDisc == "Peer-Disc"
RcvDPR == "Rcv-DPR"
RcvDPA == "Rcv-DPA"
WinElection == "Win-Election"
SendMessage == "Send-Message"
RcvMessage == "Rcv-Message"
Stop == "Stop"
ISendConnReq == "I-Send-Conn-Req"
DError == "Diameter-Error"

DiameterEvents ==
  {Start, RConnCER, RcvConnAck, RcvConnNack, Timeout, RcvCER, RcvCEA,
   RcvNonCEA, PeerDisc, RcvDPR, RcvDPA, WinElection, SendMessage,
   RcvMessage, Stop, ISendConnReq, DError}

(* ------- states and events of the client and server state machines ------ *)
StateClosed == "StateClosed"
StateWaitConnAck == "StateWaitConnAck"
StateWaitCEA == "StateWaitCEA"
StateIOpen == "StateIOpen"
StateClosing == "StateClosing"
StateROpen == "StateROpen"
StateWaitICEA == "StateWaitICEA"

EventStart == "EventStart"
EventConnAck == "EventConnAck"
EventConnNack == "EventConnNack"
EventCEAReceived == "EventCEAReceived"
EventNonCEAReceived == "EventNonCEAReceived"
EventTimeout == "EventTimeout"
EventSendMessage == "EventSendMessage"
EventReceiveDWR == "EventReceiveDWR"
EventReceiveDWA == "EventReceiveDWA"
EventDisconnect == "EventDisconnect"
EventReceiveDPR == "EventReceiveDPR"
EventReceiveDPA == "EventReceiveDPA"

ClientEvents ==
  {EventStart, EventConnAck, EventConnNack, EventCEAReceived,
   EventNonCEAReceived, EventTimeout, EventSendMessage, EventReceiveDWR,
   EventReceiveDWA, EventDisconnect, EventReceiveDPR, EventReceiveDPA}

EventConnCERReceived == "EventConnCERReceived"
EventDPRReceived == "EventDPRReceived"
EventDPAReceived == "EventDPAReceived"
EventDWRReceived == "EventDWRReceived"
EventDWAReceived == "EventDWAReceived"

ServerEvents ==
  {EventConnCERReceived, EventCEAReceived, EventTimeout, EventDisconnect,
   EventDPRReceived, EventDPAReceived, EventDWRReceived, EventDWAReceived}

EventsOf(fl) ==
  CASE fl = "diameter" -> DiameterEvents
    [] fl = "client" -> ClientEvents
    [] OTHER -> ServerEvents

(* ------------------------------ messages -------------------------------- *)
(* A *DiameterMessage as far as the actions look at it: nil or not, the     *)
(* command code, the R flag, and the Result-Code AVP (268) if it has one.   *)
COMMAND_CODE_CER == 257
DIAMETER_SUCCESS == 2001
DIAMETER_UNABLE_TO_COMPLY == 5012

NilMsg == [isNil |-> TRUE, cmd |-> 0, req |-> FALSE, hasRC |-> FALSE, rc |-> 0]

Msg(cmd, req, hasRC, rc) ==
  [isNil |-> FALSE, cmd |-> cmd, req |-> req, hasRC |-> hasRC, rc |-> rc]

(* The messages a caller hands to Trigger. *)
InMsgs ==
  {NilMsg,
   Msg(COMMAND_CODE_CER, TRUE, FALSE, 0),
   Msg(COMMAND_CODE_CER, FALSE, FALSE, 0),
   Msg(COMMAND_CODE_CER, FALSE, TRUE, DIAMETER_SUCCESS),
   Msg(COMMAND_CODE_CER, FALSE, TRUE, DIAMETER_UNABLE_TO_COMPLY)}

(* Server.InitializeFSM uses the Trigger(event) without a message. *)
InMsgsOf(fl) == IF fl = "server" THEN {NilMsg} ELSE InMsgs

(* -------------------------------- errors -------------------------------- *)
NoError == [kind |-> "nil", by |-> ""]
errNoTransitionRegisteredForState == [kind |-> "no-transition", by |-> ""]
ActionError(name) == [kind |-> "action", by |-> name]

(* The operation outside the FSM that fails during one Trigger call: the    *)
(* construction of an AVP (NewAVP), the write on the connection, the dial.  *)
(* The first failing action aborts the call, so one name per call is all    *)
(* the behaviours there are.                                                *)
FailuresOf(fl) ==
  CASE fl = "diameter" -> {"none", "SendConnReq", "SendCEA", "SendMessage"}
    [] fl = "client" -> {"none", "sendConnRequest"}
    [] OTHER -> {"none"}

Ok(m) == [res |-> "ok", msg |-> m]
Err(m) == [res |-> "err", msg |-> m]
Panic(m) == [res |-> "panic", msg |-> m]
Block(m) == [res |-> "block", msg |-> m]

(* --------------- actions of NewDiameterFSM: peer_states.go -------------- *)
(* SendConnReq builds three AVPs and returns NewCER(...): a request with    *)
(* command code 257 and no Result-Code.  It does not look at its argument.  *)
SendConnReq(m, bad) ==
  IF bad = "SendConnReq" THEN Err(m)
  ELSE Ok(Msg(COMMAND_CODE_CER, TRUE, FALSE, 0))

(* AcceptConn, RejectConn, ProcessCER, Cleanup, DiameterError, Disconnect,  *)
(* SendDPR, SendDPA, Election, SendDWR, SendDWA, ProcessDWR, ProcessDWA and *)
(* ProcessMessage all return (args, nil).                                   *)
ReturnArgs(m) == Ok(m)

(* NewResponseFromRequest reads request.Header: a nil request panics.       *)
NewResponseFromRequest(request, hasRC, rc) ==
  Msg(request.cmd, FALSE, hasRC, rc)

(* SendCEA builds the AVPs (Result-Code 2001 first) and returns the answer  *)
(* to its argument.                                                         *)
SendCEA(m, bad) ==
  IF bad = "SendCEA" THEN Err(m)
  ELSE IF m.isNil THEN Panic(m)
  ELSE Ok(NewResponseFromRequest(m, TRUE, DIAMETER_SUCCESS))

(* GetResultCode ranges over msg.AVPs: nil panics, no AVP 268 is an error.  *)
GetResultCodeMissing(m) == ~m.hasRC

ProcessCEA_AcceptsMissingResultCode(m) ==
  IF m.isNil THEN Panic(m) ELSE Ok(m)

ProcessCEA(m) ==
  IF m.isNil THEN Panic(m)
  ELSE IF GetResultCodeMissing(m) THEN Err(m)
  ELSE Ok(m)

(* SendDiameterMessage (Name "SendMessage") encodes args and writes it on   *)
(* the connection of the context; args.Encode() on nil panics.              *)
SendDiameterMessage(m, bad) ==
  IF m.isNil THEN Panic(m)
  ELSE IF bad = "SendMessage" THEN Err(m)
  ELSE Ok(m)

DiameterAction(name, m, bad) ==
  CASE name = "SendConnReq" -> SendConnReq(m, bad)
    [] name = "SendCEA" -> SendCEA(m, bad)
    [] name = "ProcessCEA" -> ProcessCEA(m)
    [] name = "SendMessage" -> SendDiameterMessage(m, bad)
    [] OTHER -> ReturnArgs(m)

(* ------------- helpers of the client: client/state_machine.go ----------- *)
(* sendConnRequest returns c.Connect(): the error of the dial, or nil.      *)
sendConnRequest(m, bad) ==
  IF bad = "sendConnRequest" THEN Err(m) ELSE Ok(m)

(* sendCER calls c.fsm.Trigger, cleanup calls c.fsm.SetState and            *)
(* sendMessage calls c.fsm.GetState: each locks f.mu, which the running     *)
(* Trigger holds until it returns (sync.Mutex is not reentrant).            *)
sendCER(m) == Block(m)

cleanup(m) == Block(m)

sendMessage(m) == Block(m)

ClientAction(name, m, bad) ==
  CASE name = "sendConnRequest" -> sendConnRequest(m, bad)
    [] name = "sendCER" -> sendCER(m)
    [] name = "cleanup" -> cleanup(m)
    [] name = "sendMessage" -> sendMessage(m)
    [] OTHER -> Ok(m)

(* The helpers of the server only log: server/state_machine.go.             *)
ServerAction(name, m, bad) == Ok(m)

ActionFn(fl, name, m, bad) ==
  CASE fl = "diameter" -> DiameterAction(name, m, bad)
    [] fl = "client" -> ClientAction(name, m, bad)
    [] OTHER -> ServerAction(name, m, bad)

(* ----------------------------- the tables ------------------------------- *)
T(from, event, acts, to) ==
  [from |-> from, event |-> event, acts |-> acts, to |-> to]

(* Closed: peer_states.go 376-385 *)
DiameterClosedRows_CEANotWritten ==
  {T(Closed, ISendConnReq, <<"SendConnReq", "SendMessage">>, WaitICEA),
   T(Closed, RConnCER, <<"AcceptConn", "ProcessCER", "SendCEA">>, ROpen)}

DiameterClosedRows ==
  {T(Closed, ISendConnReq, <<"SendConnReq", "SendMessage">>, WaitICEA),
   T(Closed, RConnCER,
     <<"AcceptConn", "ProcessCER", "SendCEA", "SendMessage">>, ROpen)}

(* Wait-Conn-Ack: peer_states.go 391-395 *)
DiameterWaitConnAckRows ==
  {T(WaitConnectionAck, RcvConnAck, <<"SendCEA", "SendMessage">>, WaitICEA),
   T(WaitConnectionAck, Timeout, <<"DiameterError">>, Closed)}

(* Wait-I-CEA: peer_states.go 401-403 *)
DiameterWaitICEARows ==
  {T(WaitICEA, RcvCEA, <<"ProcessCEA">>, IOpen),
   T(WaitICEA, PeerDisc, <<"Disconnect">>, Closed),
   T(WaitICEA, DError, <<"DiameterError">>, Closed)}

(* I-Open / R-Open: peer_states.go 409-410 *)
DiameterOpenRows ==
  {T(IOpen, Stop, <<"Cleanup">>, Closing),
   T(ROpen, Stop, <<"Cleanup">>, Closing)}

(* Closing: peer_states.go 415-416 *)
DiameterClosingRows_NoTimeout ==
  {T(Closing, RcvDPA, <<"Cleanup">>, Closed)}

DiameterClosingRows ==
  {T(Closing, RcvDPA, <<"Cleanup">>, Closed),
   T(Closing, Timeout, <<"Cleanup">>, Closed)}

DiameterTransitions ==
  DiameterClosedRows \cup DiameterWaitConnAckRows \cup DiameterWaitICEARows
    \cup DiameterOpenRows \cup DiameterClosingRows

(* One ActionFunc per transition; acts lists the helpers it calls.          *)
ClientTransitions ==
  {T(StateClosed, EventStart, <<"sendConnRequest">>, StateWaitConnAck),
   T(StateWaitConnAck, EventConnAck, <<"sendCER">>, StateWaitCEA),
   T(StateWaitConnAck, EventConnNack, <<"cleanup">>, StateClosed),
   T(StateWaitConnAck, EventTimeout, <<"cleanup">>, StateClosed),
   T(StateWaitCEA, EventCEAReceived, <<"startWatchdog">>, StateIOpen),
   T(StateWaitCEA, EventNonCEAReceived, <<"cleanup">>, StateClosed),
   T(StateWaitCEA, EventTimeout, <<"cleanup">>, StateClosed),
   T(StateIOpen, EventSendMessage, <<"sendMessage">>, StateIOpen),
   T(StateIOpen, EventReceiveDWR, <<"sendDWA">>, StateIOpen),
   T(StateIOpen, EventDisconnect, <<"sendDPR", "cleanup">>, StateClosing),
   T(StateIOpen, EventReceiveDPR, <<"sendDPA", "cleanup">>, StateClosing),
   T(StateClosing, EventReceiveDPA, <<"cleanup">>, StateClosed),
   T(StateClosing, EventTimeout, <<"cleanup">>, StateClosed)}

ServerTransitions ==
  {T(StateClosed, EventConnCERReceived, <<"sendCEA">>, StateROpen),
   T(StateROpen, EventDWRReceived, <<"sendDWA">>, StateROpen),
   T(StateROpen, EventDisconnect, <<"sendDPR">>, StateClosing),
   T(StateROpen, EventDPRReceived, <<"sendDPA", "cleanup">>, StateClosing),
   T(StateClosing, EventDPAReceived, <<"cleanup">>, StateClosed),
   T(StateClosing, EventTimeout, <<"cleanup">>, StateClosed)}

Table(fl) ==
  CASE fl = "diameter" -> DiameterTransitions
    [] fl = "client" -> ClientTransitions
    [] OTHER -> ServerTransitions

(* NewFSM(Closed) / NewFSM(StateClosed) *)
NewFSM(fl) == IF fl = "diameter" THEN Closed ELSE StateClosed

(* ------------------------------- Trigger -------------------------------- *)
NoHolder == "none"

(* f.mu.Lock() returns when nobody holds the mutex. *)
MutexLock_NoExclusion(p) == TRUE

MutexLock(p) == mu = NoHolder

(* transitions[f.state][event]: the rows registered for the state and event *)
Lookup_ByEventOnly(fl, s, e) == {t \in Table(fl) : t.event = e}

Lookup(fl, s, e) == {t \in Table(fl) : t.from = s /\ t.event = e}

(* The actions of a transition run in order, each on the message the one    *)
(* before returned; the first that does not return nil ends the run.        *)
RECURSIVE RunActions(_, _, _, _, _)
RunActions(fl, acts, m, bad, ran) ==
  IF acts = <<>> THEN [ran |-> ran, res |-> "ok", msg |-> m]
  ELSE LET r == ActionFn(fl, Head(acts), m, bad)
       IN IF r.res = "ok"
          THEN RunActions(fl, Tail(acts), r.msg, bad, Append(ran, Head(acts)))
          ELSE [ran |-> Append(ran, Head(acts)), res |-> r.res, msg |-> r.msg]

(* Where Trigger goes after the action: an error returns before the state   *)
(* is assigned.                                                             *)
AfterAction_IgnoresError(res) ==
  CASE res = "ok" -> "update"
    [] res = "err" -> "update"
    [] res = "panic" -> "panicked"
    [] OTHER -> "blocked"

AfterAction(res) ==
  CASE res = "ok" -> "update"
    [] res = "err" -> "return"
    [] res = "panic" -> "panicked"
    [] OTHER -> "blocked"

NoCall ==
  [event |-> "", arg |-> NilMsg, msg |-> NilMsg, bad |-> "none",
   wasFresh |-> FALSE, from |-> "", found |-> FALSE, acts |-> <<>>,
   to |-> "", ran |-> <<>>, res |-> "", err |-> NoError]

(* An unrecovered panic ends the process. *)
Alive == \A q \in Callers : pc[q] # "panicked"

Init ==
  /\ flavor \in Flavors
  /\ state = NewFSM(flavor)
  /\ mu = NoHolder
  /\ pc = [p \in Callers |-> "idle"]
  /\ call = [p \in Callers |-> NoCall]
  /\ fresh = TRUE
  /\ ReaderUnused /\ CodecUnused /\ AcceptUnused /\ FnUnused /\ ClientUnused

(* A caller calls Trigger and arrives at f.mu.Lock(). *)
TriggerCall(p) ==
  /\ Alive
  /\ pc[p] = "idle"
  /\ pc' = [pc EXCEPT ![p] = "lock"]
  /\ UNCHANGED <<flavor, state, mu, call, fresh>>
  /\ UNCHANGED others

(* f.mu.Lock() returns; event and msg are the arguments of the call. *)
TriggerLock(p) ==
  /\ Alive
  /\ pc[p] = "lock"
  /\ MutexLock(p)
  /\ \E e \in EventsOf(flavor), m \in InMsgsOf(flavor), b \in FailuresOf(flavor) :
       call' = [call EXCEPT ![p] =
                  [NoCall EXCEPT !.event = e, !.arg = m, !.msg = m, !.bad = b,
                                 !.wasFresh = fresh]]
  /\ mu' = p
  /\ pc' = [pc EXCEPT ![p] = "lookup"]
  /\ fresh' = FALSE
  /\ UNCHANGED <<flavor, state>>
  /\ UNCHANGED others

(* the two map lookups; no row: return the no-transition error *)
TriggerLookup(p) ==
  /\ Alive
  /\ pc[p] = "lookup"
  /\ LET rows == Lookup(flavor, state, call[p].event)
     IN IF rows = {}
        THEN /\ call' = [call EXCEPT ![p].from = state,
                                     ![p].err = errNoTransitionRegisteredForState]
             /\ pc' = [pc EXCEPT ![p] = "return"]
        ELSE \E t \in rows :
               /\ call' = [call EXCEPT ![p].from = state, ![p].found = TRUE,
                                       ![p].acts = t.acts, ![p].to = t.to]
               /\ pc' = [pc EXCEPT ![p] = "action"]
  /\ UNCHANGED <<flavor, state, mu, fresh>>
  /\ UNCHANGED others

(* transition.Action(msg); if err != nil { return err } *)
TriggerAction(p) ==
  /\ Alive
  /\ pc[p] = "action"
  /\ LET r == RunActions(flavor, call[p].acts, call[p].msg, call[p].bad, <<>>)
     IN /\ call' = [call EXCEPT ![p].ran = r.ran, ![p].res = r.res,
                                ![p].msg = r.msg,
                                ![p].err = IF r.res = "err"
                                           THEN ActionError(r.ran[Len(r.ran)])
                                           ELSE NoError]
        /\ pc' = [pc EXCEPT ![p] = AfterAction(r.res)]
        \* a panic unwinds through the deferred f.mu.Unlock()
        /\ mu' = IF r.res = "panic" /\ mu = p THEN NoHolder ELSE mu
  /\ UNCHANGED <<flavor, state, fresh>>
  /\ UNCHANGED others

(* f.state = transition.To *)
TriggerUpdate(p) ==
  /\ Alive
  /\ pc[p] = "update"
  /\ state' = call[p].to
  /\ pc' = [pc EXCEPT ![p] = "return"]
  /\ UNCHANGED <<flavor, mu, call, fresh>>
  /\ UNCHANGED others

(* return; the deferred f.mu.Unlock() *)
TriggerReturn(p) ==
  /\ Alive
  /\ pc[p] = "return"
  /\ mu' = NoHolder
  /\ pc' = [pc EXCEPT ![p] = "idle"]
  /\ call' = [call EXCEPT ![p] = NoCall]
  /\ UNCHANGED <<flavor, state, fresh>>
  /\ UNCHANGED others

Next ==
  \E p \in Callers :
    \/ TriggerCall(p)
    \/ TriggerLock(p)
    \/ TriggerLookup(p)
    \/ TriggerAction(p)
    \/ TriggerUpdate(p)
    \/ TriggerReturn(p)

Spec == Init /\ [][Next]_vars

(* ------------------------- properties of Trigger ------------------------ *)
(* A transition is registered for the state and the event. *)
Registered(fl, s, e) == \E t \in Table(fl) : t.from = s /\ t.event = e

(* The caller is past the lookup of its Trigger call. *)
PastLookup(p) == pc[p] \in {"action", "update", "return", "blocked", "panicked"}

(* The caller's Trigger call has gone as far as it goes: it is returning,   *)
(* or it blocks for ever, or it panicked.                                   *)
Ended(p) == pc[p] \in {"return", "blocked", "panicked"}

(* C1: for every state s and event e with no transition registered for     *)
(* (s, e), Trigger(e) called in state s returns the no-transition error,    *)
(* runs no action and leaves the state of the FSM equal to s.               *)
C1_NoTransitionKeepsState ==
  \A p \in Callers :
    (PastLookup(p) /\ ~Registered(flavor, call[p].from, call[p].event))
      => /\ pc[p] = "return"
         /\ call[p].err = errNoTransitionRegisteredForState
         /\ call[p].ran = <<>>
         /\ state = call[p].from

(* C1 witness: a Trigger returns the no-transition error in a state other   *)
(* than the initial one.                                                    *)
C1_Witness ==
  \E p \in Callers :
    /\ pc[p] = "return"
    /\ ~Registered(flavor, call[p].from, call[p].event)
    /\ call[p].err = errNoTransitionRegisteredForState
    /\ call[p].from # NewFSM(flavor)
    /\ state = call[p].from

(* C2: if an action of the selected transition returns an error, Trigger    *)
(* returns that error and the state of the FSM is the one before the call:  *)
(* the target state is never entered.                                       *)
C2_ActionErrorKeepsState ==
  \A p \in Callers :
    (PastLookup(p) /\ call[p].res = "err")
      => /\ pc[p] = "return"
         /\ call[p].err = ActionError(call[p].ran[Len(call[p].ran)])
         /\ state = call[p].from

(* C2 witness: a Trigger returns the error of an action of a transition     *)
(* whose target differs from the current state.                             *)
C2_Witness ==
  \E p \in Callers :
    /\ pc[p] = "return"
    /\ call[p].res = "err"
    /\ call[p].err.kind = "action"
    /\ call[p].to # call[p].from
    /\ state = call[p].from

(* The callers inside Trigger, between Lock and Unlock. *)
Inside == {p \in Callers : pc[p] \in {"lookup", "action", "update", "return", "blocked"}}

(* C3: Trigger calls on one FSM are serialized: at most one caller is       *)
(* between the lock and the unlock, no other call changes the state between *)
(* a call's lookup and its state update, and a call returns with the state  *)
(* its own transition produced from the state it looked up.                 *)
C3_TriggerSerialized ==
  /\ Cardinality(Inside) <= 1
  /\ \A p \in Inside : mu = p
  /\ \A p \in Callers :
       /\ pc[p] \in {"action", "update", "blocked"} => state = call[p].from
       /\ pc[p] = "return" =>
            state = IF call[p].found /\ call[p].res = "ok"
                    THEN call[p].to ELSE call[p].from

(* C3 witness: one caller is about to assign the state of a transition that *)
(* changes it while the two others wait at the lock.                        *)
C3_Witness ==
  \E p \in Callers :
    /\ pc[p] = "update"
    /\ call[p].to # call[p].from
    /\ \A q \in Callers \ {p} : pc[q] = "lock"

(* ------------------- the peer state machine's transitions --------------- *)
(* The names the three machines give to the states and events of RFC 6733.  *)
Initiators == {"diameter", "client"}

StartOf(fl) == IF fl = "diameter" THEN Start ELSE EventStart

ConnAckOf(fl) == IF fl = "diameter" THEN RcvConnAck ELSE EventConnAck

WaitConnAckOf(fl) == IF fl = "diameter" THEN WaitConnectionAck ELSE StateWaitConnAck

WaitICEAOf(fl) == IF fl = "diameter" THEN WaitICEA ELSE StateWaitCEA

OpenOf(fl) ==
  CASE fl = "diameter" -> {IOpen, ROpen}
    [] fl = "client" -> {StateIOpen}
    [] OTHER -> {StateROpen}

ClosingOf(fl) == IF fl = "diameter" THEN Closing ELSE StateClosing

StopOf(fl) == IF fl = "diameter" THEN Stop ELSE EventDisconnect

RcvDPROf(fl) ==
  CASE fl = "diameter" -> RcvDPR
    [] fl = "client" -> EventReceiveDPR
    [] OTHER -> EventDPRReceived

RcvDPAOf(fl) ==
  CASE fl = "diameter" -> RcvDPA
    [] fl = "client" -> EventReceiveDPA
    [] OTHER -> EventDPAReceived

TimeoutOf(fl) == IF fl = "diameter" THEN Timeout ELSE EventTimeout

(* The action (one of names) ran in the caller's Trigger call. *)
Ran(p, names) == \E i \in 1..Len(call[p].ran) : call[p].ran[i] \in names

TimesRan(p, names) ==
  Cardinality({i \in 1..Len(call[p].ran) : call[p].ran[i] \in names})

(* The caller's call is past its actions. *)
PastAction(p) == pc[p] \in {"update", "return", "blocked", "panicked"}

IsPrefix(a, b) == Len(a) <= Len(b) /\ a = SubSeq(b, 1, Len(a))

(* C4: on a freshly created initiator FSM (state Closed), Trigger(Start)    *)
(* succeeds, runs the SendConnReq action exactly once and leaves the FSM in *)
(* Wait-Conn-Ack (no operation outside the FSM failing).                    *)
C4_StartEntersWaitConnAck ==
  \A p \in Callers :
    (/\ flavor \in Initiators
     /\ Ended(p)
     /\ call[p].wasFresh
     /\ call[p].event = StartOf(flavor)
     /\ call[p].bad = "none")
      => /\ pc[p] = "return"
         /\ call[p].err = NoError
         /\ TimesRan(p, {"SendConnReq", "sendConnRequest"}) = 1
         /\ state = WaitConnAckOf(flavor)

C6_ConnAckSendsCER ==
  \A p \in Callers :
    (/\ flavor \in Initiators
     /\ PastAction(p)
     /\ call[p].from = WaitConnAckOf(flavor)
     /\ call[p].event = ConnAckOf(flavor)
     /\ call[p].bad = "none")
      => /\ pc[p] \in {"update", "return"}
         /\ Ran(p, {"SendCER", "sendCER"})
         /\ pc[p] = "return" => state = WaitICEAOf(flavor)

(* C7: in Wait-I-CEA, I-Rcv-CEA runs ProcessCEA; if it succeeds the FSM     *)
(* moves to I-Open; if it fails (the CEA carries no Result-Code AVP) the    *)
(* FSM stays in Wait-I-CEA and Trigger returns the error of ProcessCEA.     *)
C7_RcvCEAEntersIOpen ==
  \A p \in Callers :
    (/\ flavor = "diameter"
     /\ PastAction(p)
     /\ call[p].from = WaitICEA
     /\ call[p].event = RcvCEA)
      => /\ call[p].ran = <<"ProcessCEA">>
         /\ (~call[p].arg.isNil /\ call[p].arg.hasRC) =>
              /\ call[p].res = "ok"
              /\ pc[p] \in {"update", "return"}
              /\ pc[p] = "return" => state = IOpen
         /\ (~call[p].arg.isNil /\ ~call[p].arg.hasRC) =>
              /\ call[p].res = "err"
              /\ pc[p] = "return"
              /\ call[p].err = ActionError("ProcessCEA")
         /\ call[p].res # "ok" => state = WaitICEA

(* C7 witness: a Trigger(Rcv-CEA) in Wait-I-CEA returns with the FSM in     *)
(* I-Open.                                                                  *)
C7_Witness ==
  \E p \in Callers :
    /\ flavor = "diameter"
    /\ pc[p] = "return"
    /\ call[p].from = WaitICEA
    /\ call[p].event = RcvCEA
    /\ call[p].arg.hasRC
    /\ call[p].ran = <<"ProcessCEA">>
    /\ state = IOpen

(* C8: in I-Open and in R-Open, the Stop event runs the SendDPR action and  *)
(* moves the FSM to Closing.                                                *)
C8_StopSendsDPR ==
  \A p \in Callers :
    (/\ PastLookup(p)
     /\ call[p].from \in OpenOf(flavor)
     /\ call[p].event = StopOf(flavor))
      => /\ call[p].found
         /\ pc[p] \in {"action", "update", "return"}
         /\ pc[p] \in {"update", "return"} => Ran(p, {"SendDPR", "sendDPR"})
         /\ pc[p] = "return" => call[p].err = NoError /\ state = ClosingOf(flavor)

(* C9: in I-Open and in R-Open, a received DPR runs the SendDPA action and  *)
(* moves the FSM to Closing; the DPR is not rejected as an event without    *)
(* transition.                                                              *)
C9_RcvDPRSendsDPA ==
  \A p \in Callers :
    (/\ PastLookup(p)
     /\ call[p].from \in OpenOf(flavor)
     /\ call[p].event = RcvDPROf(flavor))
      => /\ call[p].found
         /\ pc[p] \in {"action", "update", "return"}
         /\ pc[p] \in {"update", "return"} => Ran(p, {"SendDPA", "sendDPA"})
         /\ pc[p] = "return" => call[p].err = NoError /\ state = ClosingOf(flavor)

(* From Closing, a received DPA and a Timeout are accepted and their        *)
(* Trigger returns nil with the FSM in Closed; so does every Trigger that   *)
(* succeeds from Closing.                                                   *)
ClosingCallsEndInClosed ==
  \A p \in Callers :
    /\ (/\ PastLookup(p)
        /\ call[p].from = ClosingOf(flavor)
        /\ call[p].event \in {RcvDPAOf(flavor), TimeoutOf(flavor)})
         => /\ call[p].found
            /\ pc[p] \in {"action", "update", "return"}
            /\ pc[p] = "return" => call[p].err = NoError /\ state = NewFSM(flavor)
    /\ (/\ pc[p] = "return"
        /\ call[p].from = ClosingOf(flavor)
        /\ call[p].err = NoError)
         => state = NewFSM(flavor)

(* C10: from Closing, a received DPA and a Timeout each move the FSM to     *)
(* Closed, and Closed is the only state that can follow Closing.            *)
C10_ClosingLeadsOnlyToClosed ==
  /\ []ClosingCallsEndInClosed
  /\ [][state = ClosingOf(flavor) =>
          state' \in {ClosingOf(flavor), NewFSM(flavor)}]_vars

(* C10 witness: a Trigger of the received DPA from Closing returns with the *)
(* FSM in Closed.                                                           *)
C10_Witness ==
  \E p \in Callers :
    /\ pc[p] = "return"
    /\ call[p].from = ClosingOf(flavor)
    /\ call[p].event = RcvDPAOf(flavor)
    /\ call[p].err = NoError
    /\ state = NewFSM(flavor)

(* ======================= the codec: package message ===================== *)
(* A []byte is a sequence of numbers 0..255.                                *)

(* data[lo:hi] of Go on a 1-based sequence: the bytes lo+1 .. hi.           *)
Slice(data, lo, hi) == SubSeq(data, lo + 1, hi)

Zeros(n) == [i \in 1..n |-> 0]

(* utils.ToBytes: the count low-order bytes of value, most significant      *)
(* first; byte() drops the higher bits.                                     *)
ToBytes(value, count) ==
  [i \in 1..count |-> (value \div (2 ^ (8 * (count - i)))) % 256]

(* utils.FromBytes: result = result<<8 | data[i], a uint32.  A uint32 with  *)
(* its top bit set is held as the integer below zero that has the same 32   *)
(* bits (two's complement), so that every uint32 has one value here; \div   *)
(* and % give ToBytes the same bytes for it.                                *)
RECURSIVE FromBytes(_)
FromBytes(data) ==
  IF data = <<>> THEN 0
  ELSE IF Len(data) = 4 /\ data[1] >= 128
  THEN FromBytes(<<data[1] - 256>> \o Tail(data))
  ELSE FromBytes(SubSeq(data, 1, Len(data) - 1)) * 256 + data[Len(data)]

DIAMETER_HEADER_SIZE == 20
DIAMETER_VERSION == 1
COMMAND_FLAG_REQUEST == 128
COMMAND_FLAG_RESPONSE == 0
COMMAND_CODE_DWR == 280

DiameterHeader(version, length, flags, code, app, hbh, e2e) ==
  [Version |-> version, MessageLength |-> length, CommandFlags |-> flags,
   CommandCode |-> code, ApplicationID |-> app, HopByHopID |-> hbh,
   EndToEndID |-> e2e]

(* DiameterHeader.Encode *)
HeaderEncode(h) ==
  <<h.Version>> \o ToBytes(h.MessageLength, 3) \o <<h.CommandFlags>>
    \o ToBytes(h.CommandCode, 3) \o ToBytes(h.ApplicationID, 4)
    \o ToBytes(h.HopByHopID, 4) \o ToBytes(h.EndToEndID, 4)

NoHeader == DiameterHeader(0, 0, 0, 0, 0, 0, 0)

(* DecodeHeader: too short and a version other than 1 are errors.           *)
DecodeHeader(data) ==
  IF Len(data) < DIAMETER_HEADER_SIZE
  THEN [err |-> "InvalidDiameterHeaderLengthError", header |-> NoHeader]
  ELSE IF data[1] # DIAMETER_VERSION
  THEN [err |-> "InvalidDiameterVersionError", header |-> NoHeader]
  ELSE [err |-> "nil",
        header |-> DiameterHeader(data[1], FromBytes(Slice(data, 1, 4)),
                                  data[5], FromBytes(Slice(data, 5, 8)),
                                  FromBytes(Slice(data, 8, 12)),
                                  FromBytes(Slice(data, 12, 16)),
                                  FromBytes(Slice(data, 16, 20)))]

(* ------------------------- AVP data: AVPData ---------------------------- *)
AVPHeaderLength == 8
AVPHeaderLengthWithV == 12
MANDATORY_FLAG == 64
VENDOR_FLAG == 128
PROTECTED_FLAG == 32
AVP_VENDOR_ID_LENGTH == 4
AVP_PROTECTION_LENGTH == 4
int32Length == 4
IPAddressTypeLength == 2
IPv4AddressLength == 4
IPv6AddressLength == 16
AddressFamilyIPv4Byte == 1
AddressFamilyIPv6Byte == 2

(* (flags & flag) == flag, for a flag of one bit *)
isFlagSet(flags, flag) == (flags \div flag) % 2 = 1

(* getPadding *)
getPadding(length) == (4 - (length % 4)) % 4

(* encode32 / decode32 of datatypes_basic.go: byte i holds bits 8i..8i+7.   *)
encode32(data) == [i \in 1..int32Length |-> (data \div (2 ^ (8 * (i - 1)))) % 256]

(* A decode32 that takes the first byte as the most significant one.        *)
decode32_BigEndian(data) ==
  (IF data[1] >= 128 THEN data[1] - 256 ELSE data[1]) * 16777216
    + data[2] * 65536 + data[3] * 256 + data[4]

decode32(data) ==
  data[1] + data[2] * 256 + data[3] * 65536
    + (IF data[4] >= 128 THEN data[4] - 256 ELSE data[4]) * 16777216

(* A value of an AVPData type: Unsigned32 holds a number, the types that    *)
(* embed OctetString hold bytes (for Address, the bytes of the net.IP).     *)
U32Data(v) == [type |-> "Unsigned32", u32 |-> v, octets |-> <<>>]
OctetData(type, bytes) == [type |-> type, u32 |-> 0, octets |-> bytes]
NoData == [type |-> "nil", u32 |-> 0, octets |-> <<>>]

(* IsDerivedFromOctetString: the struct has a field of type OctetString.    *)
IsDerivedFromOctetString(d) ==
  d.type \in {"UTF8String", "DiameterIdentity", "Address"}

(* Address.isIPv4: a.Data.To4() != nil *)
isIPv4(d) == Len(d.octets) = IPv4AddressLength

(* AVPData.Length() *)
DataLength(d) ==
  CASE d.type = "Unsigned32" -> int32Length
    [] d.type = "Address" ->
         IF isIPv4(d) THEN IPAddressTypeLength + IPv4AddressLength
         ELSE IPAddressTypeLength + IPv6AddressLength
    [] OTHER -> Len(d.octets)

(* AVPData.Encode(): Address pads itself, UTF8String and DiameterIdentity   *)
(* return their bytes.                                                      *)
DataEncode(d) ==
  CASE d.type = "Unsigned32" -> encode32(d.u32)
    [] d.type = "Address" ->
         LET buf == <<0, IF isIPv4(d) THEN AddressFamilyIPv4Byte
                         ELSE AddressFamilyIPv6Byte>> \o d.octets
         IN buf \o Zeros(getPadding(Len(buf)))
    [] OTHER -> d.octets

(* ------------------------------- AVP ------------------------------------ *)
AVP_CODE_ORIGIN_HOST == 264
AVP_CODE_ORIGIN_REALM == 296
AVP_CODE_HOST_IP_ADDRESS == 257
AVP_CODE_VENDOR_ID == 266
AVP_CODE_PRODUCT_NAME == 269
AVP_CODE_RESULT_CODE == 268

AVP(code, flags, length, vendor, data) ==
  [Code |-> code, Flags |-> flags, AVPlength |-> length, VendorID |-> vendor,
   Data |-> data]

NoAVP == AVP(0, 0, 0, 0, NoData)

(* avpTypeMap: the data type registered for an AVP code ("" for none).      *)
avpTypeMap(code) ==
  CASE code = AVP_CODE_RESULT_CODE -> "Unsigned32"
    [] code = AVP_CODE_VENDOR_ID -> "Unsigned32"
    [] code = AVP_CODE_ORIGIN_HOST -> "DiameterIdentity"
    [] code = AVP_CODE_ORIGIN_REALM -> "DiameterIdentity"
    [] code = AVP_CODE_PRODUCT_NAME -> "UTF8String"
    [] code = AVP_CODE_HOST_IP_ADDRESS -> "Address"
    [] OTHER -> ""

(* A Go value handed to NewAVP: a uint32, a string or a net.IP.             *)
Uint32Value(v) == [kind |-> "uint32", u32 |-> v, octets |-> <<>>]
StringValue(bytes) == [kind |-> "string", u32 |-> 0, octets |-> bytes]
IPValue(bytes) == [kind |-> "net.IP", u32 |-> 0, octets |-> bytes]

(* utf8.Valid on the strings of the model, which are ASCII *)
isValidUTF8(bytes) == \A i \in 1..Len(bytes) : bytes[i] < 128

(* AVPData.SetData(value): each type takes the Go type it stores.           *)
SetData(type, value) ==
  CASE type = "Unsigned32" /\ value.kind = "uint32" ->
         [err |-> "nil", data |-> U32Data(value.u32)]
    [] type = "UTF8String" /\ value.kind = "string" ->
         IF isValidUTF8(value.octets)
         THEN [err |-> "nil", data |-> OctetData(type, value.octets)]
         ELSE [err |-> "InvalidUTF8StringError", data |-> NoData]
    [] type = "DiameterIdentity" /\ value.kind = "string" ->
         [err |-> "nil", data |-> OctetData(type, value.octets)]
    [] type = "Address" /\ value.kind = "net.IP" ->
         [err |-> "nil", data |-> OctetData(type, value.octets)]
    [] OTHER -> [err |-> "invalid data type", data |-> NoData]

(* NewAVP: length is the header length (12 with the V flag) plus the data   *)
(* length, plus 4 with the P flag, plus 4 more with the V flag.             *)
NewAVP(code, value, flag, vendorID) ==
  LET headerLen == IF isFlagSet(flag, VENDOR_FLAG) THEN AVPHeaderLengthWithV
                   ELSE AVPHeaderLength
      type == avpTypeMap(code)
      set == SetData(type, value)
      length == headerLen + DataLength(set.data)
                  + (IF isFlagSet(flag, PROTECTED_FLAG)
                     THEN AVP_PROTECTION_LENGTH ELSE 0)
                  + (IF isFlagSet(flag, VENDOR_FLAG)
                     THEN AVP_VENDOR_ID_LENGTH ELSE 0)
  IN IF type = "" THEN [err |-> "Unsupported AVP code", avp |-> NoAVP]
     ELSE IF set.err # "nil" THEN [err |-> set.err, avp |-> NoAVP]
     ELSE IF isFlagSet(flag, VENDOR_FLAG) /\ vendorID = <<>>
     THEN [err |-> "VendorIDRequiredError", avp |-> NoAVP]
     ELSE [err |-> "nil",
           avp |-> AVP(code, flag, length,
                       IF isFlagSet(flag, VENDOR_FLAG) THEN vendorID[1] ELSE 0,
                       set.data)]

(* AVP.getHeaderLength *)
getHeaderLength(a) ==
  IF isFlagSet(a.Flags, VENDOR_FLAG) THEN AVPHeaderLengthWithV
  ELSE AVPHeaderLength

(* AVP.Encode: code, flags, AVPlength, the vendor id with the V flag, the   *)
(* data, and padding after data of a type derived from OctetString.         *)
AVPEncode(a) ==
  LET header == ToBytes(a.Code, 4) \o <<a.Flags>> \o ToBytes(a.AVPlength, 3)
                  \o (IF isFlagSet(a.Flags, VENDOR_FLAG)
                      THEN ToBytes(a.VendorID, AVP_VENDOR_ID_LENGTH) ELSE <<>>)
      data == DataEncode(a.Data)
  IN header \o data
       \o (IF IsDerivedFromOctetString(a.Data)
           THEN Zeros(getPadding(Len(data))) ELSE <<>>)

(* AVPData.Decode(data) of the registered type.  decode32 indexes data[0..3]*)
(* whatever the length: fewer than 4 bytes is an index out of range.        *)
DataDecode(type, data) ==
  CASE type = "Unsigned32" ->
         IF Len(data) < int32Length
         THEN [res |-> "panic", err |-> "index out of range", data |-> NoData]
         ELSE [res |-> "ok", err |-> "nil", data |-> U32Data(decode32(data))]
    [] type = "UTF8String" ->
         IF isValidUTF8(data)
         THEN [res |-> "ok", err |-> "nil", data |-> OctetData(type, data)]
         ELSE [res |-> "err", err |-> "InvalidUTF8StringError", data |-> NoData]
    [] type = "Address" ->
         IF Len(data) < IPAddressTypeLength
         THEN [res |-> "err", err |-> "InvalidAddressLengthError", data |-> NoData]
         ELSE IF FromBytes(Slice(data, 0, 2)) = AddressFamilyIPv4Byte
         THEN IF Len(data) # IPAddressTypeLength + IPv4AddressLength
              THEN [res |-> "err", err |-> "InvalidIPv4AddressLengthError",
                    data |-> NoData]
              ELSE [res |-> "ok", err |-> "nil",
                    data |-> OctetData(type, Slice(data, 2, 6))]
         ELSE IF FromBytes(Slice(data, 0, 2)) = AddressFamilyIPv6Byte
         THEN IF Len(data) # IPAddressTypeLength + IPv6AddressLength
              THEN [res |-> "err", err |-> "InvalidIPv6AddressLengthError",
                    data |-> NoData]
              ELSE [res |-> "ok", err |-> "nil",
                    data |-> OctetData(type, Slice(data, 2, 18))]
         ELSE [res |-> "err", err |-> "UnknownAddressTypeError", data |-> NoData]
    [] OTHER -> [res |-> "ok", err |-> "nil", data |-> OctetData(type, data)]

(* DecodeAVPData: an AVP code without a registered type is an error.        *)
DecodeAVPData(code, data) ==
  IF avpTypeMap(code) = ""
  THEN [res |-> "err", err |-> "Unsupported AVP code", data |-> NoData]
  ELSE DataDecode(avpTypeMap(code), data)

(* DecodeAVP.  byteCount stays 8 after the vendor id is read, so the data   *)
(* handed to DecodeAVPData is data[8:AVPlength]; that slice expression      *)
(* panics when AVPlength is below 8.                                        *)
DecodeAVP(data) ==
  IF Len(data) < AVPHeaderLength
  THEN [res |-> "err", err |-> "AVP Decode: Insufficient data", avp |-> NoAVP]
  ELSE
    LET code == FromBytes(Slice(data, 0, 4))
        flags == data[5]
        AVPlength == FromBytes(Slice(data, 5, 8))
        byteCount == 8
        vendor == IF isFlagSet(flags, VENDOR_FLAG) /\ Len(data) >= AVPHeaderLengthWithV
                  THEN FromBytes(Slice(data, byteCount, byteCount + AVP_VENDOR_ID_LENGTH))
                  ELSE 0
    IN IF Len(data) < AVPlength
       THEN [res |-> "err", err |-> "AVP Decode: Insufficient data", avp |-> NoAVP]
       ELSE IF isFlagSet(flags, VENDOR_FLAG) /\ Len(data) < AVPHeaderLengthWithV
       THEN [res |-> "err", err |-> "AVP Decode: Insufficient data", avp |-> NoAVP]
       ELSE IF AVPlength < byteCount
       THEN [res |-> "panic", err |-> "slice bounds out of range", avp |-> NoAVP]
       ELSE LET d == DecodeAVPData(code, Slice(data, byteCount, AVPlength))
            IN IF d.res # "ok"
               THEN [res |-> d.res, err |-> d.err, avp |-> NoAVP]
               ELSE [res |-> "ok", err |-> "nil",
                     avp |-> AVP(code, flags, AVPlength, vendor, d.data)]

(* ----------------------------- messages --------------------------------- *)
DiameterMessage(h, avps) == [Header |-> h, AVPs |-> avps]

NoMessage == DiameterMessage(NoHeader, <<>>)

(* extractAVPs: decode at offset, then                                      *)
(*   offset += int(avp.AVPlength) + getPadding(int(avp.AVPlength))          *)
(* while offset < len(data).                                                *)
RECURSIVE extractAVPs(_, _, _)
extractAVPs(data, offset, avps) ==
  IF offset >= Len(data) THEN [res |-> "ok", err |-> "nil", avps |-> avps]
  ELSE LET r == DecodeAVP(Slice(data, offset, Len(data)))
       IN IF r.res # "ok" THEN [res |-> r.res, err |-> r.err, avps |-> <<>>]
          ELSE extractAVPs(data,
                           offset + r.avp.AVPlength + getPadding(r.avp.AVPlength),
                           Append(avps, r.avp))

(* DiameterMessage.Encode: the header as it stands, then every AVP.         *)
RECURSIVE EncodeAVPs(_)
EncodeAVPs(avps) ==
  IF avps = <<>> THEN <<>> ELSE AVPEncode(Head(avps)) \o EncodeAVPs(Tail(avps))

Encode(m) == HeaderEncode(m.Header) \o EncodeAVPs(m.AVPs)

(* DecodeMessage: the header from the first 20 bytes, the AVPs from all the *)
(* bytes after them.                                                        *)
DecodeMessage(data) ==
  IF Len(data) < DIAMETER_HEADER_SIZE
  THEN [res |-> "err", err |-> "InvalidMessageLengthError", msg |-> NoMessage]
  ELSE LET h == DecodeHeader(data)
           a == extractAVPs(Slice(data, DIAMETER_HEADER_SIZE, Len(data)), 0, <<>>)
       IN IF h.err # "nil"
          THEN [res |-> "err", err |-> h.err, msg |-> NoMessage]
          ELSE IF a.res # "ok"
          THEN [res |-> a.res, err |-> a.err, msg |-> NoMessage]
          ELSE [res |-> "ok", err |-> "nil",
                msg |-> DiameterMessage(h.header, a.avps)]

(* NewRequest: hbh and e2e are the two rand.Uint32() values.                *)
NewRequest(commandCode, avps, hbh, e2e) ==
  DiameterMessage(
    DiameterHeader(DIAMETER_VERSION, DIAMETER_HEADER_SIZE + Len(avps),
                   COMMAND_FLAG_REQUEST, commandCode, 0, hbh, e2e),
    avps)

(* A response that keeps the command flags of its request.                  *)
NewResponse_KeepsRequestFlags(r, avps) ==
  DiameterMessage(
    DiameterHeader(DIAMETER_VERSION, DIAMETER_HEADER_SIZE + Len(avps),
                   r.Header.CommandFlags, r.Header.CommandCode,
                   r.Header.ApplicationID, r.Header.HopByHopID,
                   r.Header.EndToEndID),
    avps)

(* message.NewResponseFromRequest *)
NewResponse(r, avps) ==
  DiameterMessage(
    DiameterHeader(DIAMETER_VERSION, DIAMETER_HEADER_SIZE + Len(avps),
                   COMMAND_FLAG_RESPONSE, r.Header.CommandCode,
                   r.Header.ApplicationID, r.Header.HopByHopID,
                   r.Header.EndToEndID),
    avps)

(* ============ the reader of a peer: server/server.go, peer.go =========== *)
(* Server.AddNewPeer gives the peer the FSM of NewDiameterFSM; handlePeer   *)
(* is the only goroutine that triggers it, so a Trigger call is one step.   *)

(* GetResultCode: the first AVP 268 whose data is an *Unsigned32.           *)
ResultCodeAVPs(m) ==
  {i \in 1..Len(m.AVPs) : /\ m.AVPs[i].Code = AVP_CODE_RESULT_CODE
                          /\ m.AVPs[i].Data.type = "Unsigned32"}

GetResultCode(m) ==
  IF ResultCodeAVPs(m) = {} THEN [err |-> "Result-Code AVP not found", code |-> 0]
  ELSE [err |-> "nil",
        code |-> m.AVPs[CHOOSE i \in ResultCodeAVPs(m) :
                          \A j \in ResultCodeAVPs(m) : i <= j].Data.u32]

(* What the actions of the FSM look at in a decoded message. *)
AsArgs(m) ==
  Msg(m.Header.CommandCode, isFlagSet(m.Header.CommandFlags, COMMAND_FLAG_REQUEST),
      GetResultCode(m).err = "nil", GetResultCode(m).code)

(* p.fsm.Trigger(ctx, event, msg) on the FSM in state s, as one step: what  *)
(* it ran, how it ended, the state it leaves and the message it wrote.      *)
TriggerOnce(s, e, m, bad) ==
  LET rows == Lookup("diameter", s, e)
  IN IF rows = {}
     THEN [event |-> e, from |-> s, found |-> FALSE, ran |-> <<>>, res |-> "err",
           to |-> s, wrote |-> <<>>]
     ELSE LET t == CHOOSE x \in rows : TRUE
              r == RunActions("diameter", t.acts, m, bad, <<>>)
          IN [event |-> e, from |-> s, found |-> TRUE, ran |-> r.ran,
              res |-> r.res,
              to |-> IF AfterAction(r.res) = "update" THEN t.to ELSE s,
              wrote |-> IF r.res = "ok" /\ (\E i \in 1..Len(r.ran) : r.ran[i] = "SendMessage")
                        THEN <<r.msg>> ELSE <<>>]

(* Peer.handleMessage: a CER triggers R-Conn-CER; a DWR is logged; nothing  *)
(* is done with any other command code.  The result of Trigger is dropped.  *)
NotTriggered(s) ==
  [event |-> "", from |-> s, found |-> FALSE, ran |-> <<>>, res |-> "ok",
   to |-> s, wrote |-> <<>>]

handleMessage(s, m, bad) ==
  CASE m.Header.CommandCode = COMMAND_CODE_CER ->
         TriggerOnce(s, RConnCER, AsArgs(m), bad)
    [] m.Header.CommandCode = COMMAND_CODE_DWR -> NotTriggered(s)
    [] OTHER -> NotTriggered(s)

(* The messages the remote peer sends: a CER, a CER with an Origin-Host, a  *)
(* DWR, and a message that is not Diameter version 1.                       *)
MaxArrivals == 2
ReadBufferSize == 1024

PeerCER == NewRequest(COMMAND_CODE_CER, <<>>, 1, 2)
PeerCERWithHost ==
  NewRequest(COMMAND_CODE_CER,
             <<NewAVP(AVP_CODE_ORIGIN_HOST, StringValue(<<104>>),
                      MANDATORY_FLAG, <<>>).avp>>, 1, 2)
PeerDWR == NewRequest(COMMAND_CODE_DWR, <<>>, 3, 4)
PeerBadVersion ==
  DiameterMessage(DiameterHeader(2, DIAMETER_HEADER_SIZE, COMMAND_FLAG_REQUEST,
                                 COMMAND_CODE_DWR, 0, 5, 6), <<>>)

PeerMessages == {PeerCER, PeerCERWithHost, PeerDWR, PeerBadVersion}

ReaderInit ==
  /\ flavor = "diameter"
  /\ state = NewFSM(flavor)
  /\ mu = NoHolder
  /\ pc = [p \in Callers |-> "idle"]
  /\ call = [p \in Callers |-> NoCall]
  /\ fresh = TRUE
  /\ inbox = <<>> /\ arrived = <<>> /\ buffer = <<>>
  /\ rd = "read" /\ handled = <<>> /\ written = <<>>
  /\ CodecUnused /\ AcceptUnused /\ FnUnused /\ ClientUnused

readerFixed ==
  <<flavor, mu, pc, call, fresh, codecVars, acceptVars, fnVars, clientVars>>

ReaderRunning == rd \in {"read", "decode"}

(* The remote peer sends a message: its bytes join the stream.              *)
PeerSend ==
  /\ ReaderRunning
  /\ Len(arrived) < MaxArrivals
  /\ \E m \in PeerMessages :
       /\ arrived' = Append(arrived, m)
       /\ inbox' = inbox \o Encode(m)
  /\ UNCHANGED <<state, buffer, rd, handled, written, readerFixed>>

(* n, err := p.conn.Read(buffer) on a TCP stream: any n >= 1 of the bytes   *)
(* the transport holds, at most the size of the buffer.                     *)
ReaderRead ==
  /\ rd = "read"
  /\ inbox # <<>>
  /\ \E n \in 1..Len(inbox) :
       /\ n <= ReadBufferSize
       /\ buffer' = SubSeq(inbox, 1, n)
       /\ inbox' = SubSeq(inbox, n + 1, Len(inbox))
  /\ rd' = "decode"
  /\ UNCHANGED <<state, arrived, handled, written, readerFixed>>

(* The Read returns an error: handlePeer returns (and closes p.conn).       *)
ReaderReadError ==
  /\ rd = "read"
  /\ rd' = "readError"
  /\ UNCHANGED <<state, inbox, arrived, buffer, handled, written, readerFixed>>

(* message.DecodeMessage(buffer[:n]); an error returns from handlePeer, a   *)
(* message goes to p.handleMessage and the loop reads again.                *)
ReaderDecode ==
  /\ rd = "decode"
  /\ LET d == DecodeMessage(buffer)
     IN IF d.res = "err"
        THEN /\ rd' = "decodeError"
             /\ UNCHANGED <<state, handled, written>>
        ELSE IF d.res = "panic"
        THEN /\ rd' = "panicked"
             /\ UNCHANGED <<state, handled, written>>
        ELSE \E bad \in FailuresOf("diameter") :
               LET h == handleMessage(state, d.msg, bad)
               IN /\ handled' = Append(handled, [msg |-> d.msg, did |-> h])
                  /\ state' = h.to
                  /\ written' = written \o h.wrote
                  /\ rd' = IF h.res = "panic" THEN "panicked" ELSE "read"
  /\ UNCHANGED <<inbox, arrived, buffer, readerFixed>>

ReaderNext == PeerSend \/ ReaderRead \/ ReaderReadError \/ ReaderDecode

SpecReader == ReaderInit /\ [][ReaderNext]_<<state, readerVars>>

(* ---------------------- properties of the reader ------------------------ *)
IsDWR(m) == m.Header.CommandCode = COMMAND_CODE_DWR

(* A DWA: command code 280 without the R flag. *)
IsDWA(a) == ~a.isNil /\ a.cmd = COMMAND_CODE_DWR /\ ~a.req

(* C11: a DWR handled while the FSM is in I-Open or R-Open runs ProcessDWR  *)
(* then SendDWA, a DWA is written on the connection, and the FSM stays in   *)
(* the open state it was in.                                                *)
C11_DWRInOpenIsAnswered ==
  \A i \in 1..Len(handled) :
    (IsDWR(handled[i].msg) /\ handled[i].did.from \in {IOpen, ROpen})
      => /\ IsPrefix(<<"ProcessDWR", "SendDWA">>, handled[i].did.ran)
         /\ handled[i].did.to = handled[i].did.from
         /\ \E j \in 1..Len(handled[i].did.wrote) : IsDWA(handled[i].did.wrote[j])

(* The last thing handlePeer did with the FSM before it returned. *)
LastEvent == IF handled = <<>> THEN "" ELSE handled[Len(handled)].did.event

(* C12: when the bytes of a Read do not decode, the FSM is given the        *)
(* Diameter-Error event and is in Closed when the reader has ended.         *)
C12_DecodeErrorRaisesDiameterError ==
  rd = "decodeError" => (LastEvent = DError /\ state = Closed)

(* C13: when Read returns an error, the FSM is given the Peer-Disc event    *)
(* and is in Closed when the reader has ended.                              *)
C13_ReadErrorRaisesPeerDisc ==
  rd = "readError" => (LastEvent = PeerDisc /\ state = Closed)

(* C14: as long as the remote peer sends well-formed messages, the messages *)
(* handed to handleMessage are the messages that arrived, in their order:   *)
(* the reader never stops on them and, when it waits for more bytes with    *)
(* nothing pending, it has handed over every one of them.                   *)
HandedMessages == [i \in 1..Len(handled) |-> handled[i].msg]

AllWellFormed ==
  \A i \in 1..Len(arrived) : arrived[i].Header.Version = DIAMETER_VERSION

C14_HandedInArrivalOrder ==
  AllWellFormed =>
    /\ IsPrefix(HandedMessages, arrived)
    /\ rd \notin {"decodeError", "panicked"}
    /\ (rd = "read" /\ inbox = <<>>) => HandedMessages = arrived

(* ========== DiameterListener.Accept: transport/listerner.go ============= *)
(* Accept is called again and again on one listener (ListenAndServe).  For  *)
(* SCTP each call makes two unbuffered channels and starts a goroutine that *)
(* runs the native accept and sends what it got; the call then selects on   *)
(* the two channels and on time.After(dl.acceptTimeout).                    *)
MaxAccepts == 2
MaxConns == 2

Proto_TCP == "tcp"
Proto_SCTP == "sctp"

AcceptCalls == 1..MaxAccepts

(* What a native accept, or Accept itself, returns. *)
ConnOutcome(c) == [kind |-> "conn", conn |-> c]
ErrOutcome == [kind |-> "err", conn |-> 0]
NoOutcome == [kind |-> "none", conn |-> 0]
ErrAcceptTimeout == [kind |-> "ErrAcceptTimeout", conn |-> 0]

(* case conn := <-connChan: return the connection, nil                      *)
(* case err := <-errChan:   return nil, err                                 *)
SelectReceive_ErrorAsTimeout(out) ==
  IF out.kind = "conn" THEN out ELSE ErrAcceptTimeout

SelectReceive(out) == out

AcceptInit ==
  /\ flavor = "diameter"
  /\ state = NewFSM(flavor)
  /\ mu = NoHolder
  /\ pc = [p \in Callers |-> "idle"]
  /\ call = [p \in Callers |-> NoCall]
  /\ fresh = TRUE
  /\ ReaderUnused /\ CodecUnused /\ FnUnused /\ ClientUnused
  /\ protocol \in {Proto_TCP, Proto_SCTP}
  /\ native = [queue |-> <<>>, made |-> 0]
  /\ worker = [i \in AcceptCalls |-> [stage |-> "none", out |-> NoOutcome]]
  /\ accept = [pc |-> "idle", n |-> 0]
  /\ timer = [i \in AcceptCalls |-> "off"]
  /\ result = <<>>

acceptFixed == <<vars, readerVars, codecVars, fnVars, clientVars>>

(* A remote peer connects: the connection waits in the listener's queue.    *)
ConnArrives ==
  /\ native.made < MaxConns
  /\ native' = [queue |-> Append(native.queue, native.made + 1),
                made |-> native.made + 1]
  /\ UNCHANGED <<protocol, worker, accept, timer, result, acceptFixed>>

(* TCP: SetDeadline, then dl.listener.Accept() returns a connection or an   *)
(* error (the deadline among them).                                         *)
AcceptTCP ==
  /\ protocol = Proto_TCP
  /\ accept.pc = "idle"
  /\ accept.n < MaxAccepts
  /\ \/ /\ native.queue # <<>>
        /\ result' = Append(result, ConnOutcome(Head(native.queue)))
        /\ native' = [native EXCEPT !.queue = Tail(@)]
     \/ /\ result' = Append(result, ErrOutcome)
        /\ UNCHANGED native
  /\ accept' = [pc |-> "idle", n |-> accept.n + 1]
  /\ UNCHANGED <<protocol, worker, timer, acceptFixed>>

(* SCTP: make the channels and start the goroutine.                         *)
AcceptSpawn ==
  /\ protocol = Proto_SCTP
  /\ accept.pc = "idle"
  /\ accept.n < MaxAccepts
  /\ accept' = [pc |-> "spawned", n |-> accept.n + 1]
  /\ worker' = [worker EXCEPT ![accept.n + 1].stage = "accepting"]
  /\ UNCHANGED <<protocol, native, timer, result, acceptFixed>>

(* The goroutine: dl.listener.Accept() returns a queued connection or an    *)
(* error; the goroutine goes on to send it on connChan or errChan.          *)
WorkerAccepts(i) ==
  /\ worker[i].stage = "accepting"
  /\ \/ /\ native.queue # <<>>
        /\ worker' = [worker EXCEPT ![i] = [stage |-> "sending",
                                            out |-> ConnOutcome(Head(native.queue))]]
        /\ native' = [native EXCEPT !.queue = Tail(@)]
     \/ /\ worker' = [worker EXCEPT ![i] = [stage |-> "sending", out |-> ErrOutcome]]
        /\ UNCHANGED native
  /\ UNCHANGED <<protocol, accept, timer, result, acceptFixed>>

(* Accept reaches the select: time.After starts the timer.  A goroutine     *)
(* already waiting to send is received from at once; otherwise Accept       *)
(* blocks in the select.                                                    *)
AcceptSelect ==
  /\ accept.pc = "spawned"
  /\ IF worker[accept.n].stage = "sending"
     THEN /\ result' = Append(result, SelectReceive(worker[accept.n].out))
          /\ worker' = [worker EXCEPT ![accept.n].stage = "done"]
          /\ timer' = [timer EXCEPT ![accept.n] = "running"]
          /\ accept' = [accept EXCEPT !.pc = "idle"]
     ELSE /\ timer' = [timer EXCEPT ![accept.n] = "running"]
          /\ accept' = [accept EXCEPT !.pc = "select"]
          /\ UNCHANGED <<result, worker>>
  /\ UNCHANGED <<protocol, native, acceptFixed>>

(* The goroutine's send meets the select blocked on its channel: Accept     *)
(* returns what the goroutine got and the goroutine ends.                   *)
WorkerSends(i) ==
  /\ worker[i].stage = "sending"
  /\ accept.pc = "select"
  /\ accept.n = i
  /\ result' = Append(result, SelectReceive(worker[i].out))
  /\ worker' = [worker EXCEPT ![i].stage = "done"]
  /\ accept' = [accept EXCEPT !.pc = "idle"]
  /\ UNCHANGED <<protocol, native, timer, acceptFixed>>

(* The timer fires while Accept is blocked in the select: Accept returns    *)
(* ErrAcceptTimeout.  Nobody receives from the two channels any more.       *)
TimerFires ==
  /\ accept.pc = "select"
  /\ timer[accept.n] = "running"
  /\ timer' = [timer EXCEPT ![accept.n] = "fired"]
  /\ result' = Append(result, ErrAcceptTimeout)
  /\ accept' = [accept EXCEPT !.pc = "idle"]
  /\ UNCHANGED <<protocol, native, worker, acceptFixed>>

AcceptNext ==
  \/ ConnArrives
  \/ AcceptTCP
  \/ AcceptSpawn
  \/ AcceptSelect
  \/ TimerFires
  \/ \E i \in AcceptCalls : WorkerAccepts(i) \/ WorkerSends(i)

SpecAccept == AcceptInit /\ [][AcceptNext]_acceptVars

(* C15: every SCTP Accept call that has returned either returned            *)
(* ErrAcceptTimeout, and then its timer fired while its goroutine had not   *)
(* handed anything over, or returned exactly what its goroutine got from    *)
(* the native accept (the connection, or the error), and then its timer had *)
(* not fired.                                                               *)
C15_AcceptRacesWorkerAndTimeout ==
  protocol = Proto_SCTP =>
    \A i \in 1..Len(result) :
      IF timer[i] = "fired"
      THEN result[i] = ErrAcceptTimeout /\ worker[i].stage # "done"
      ELSE /\ worker[i].stage = "done"
           /\ result[i].kind \in {"conn", "err"}
           /\ result[i] = worker[i].out

(* Two calls: the first timed out with its goroutine still in the native    *)
(* accept, the second returned the connection its goroutine accepted.       *)
C15_Witness ==
  /\ protocol = Proto_SCTP
  /\ Len(result) = 2
  /\ result[1] = ErrAcceptTimeout
  /\ result[2].kind = "conn"
  /\ worker[2].stage = "done"

(* ------------------------------ watchdog -------------------------------- *)
(* C16: the Timeout that the second expiry of the watchdog raises on an     *)
(* open peer is accepted by the FSM and takes it out of the open state.     *)
C16_WatchdogTimeoutStopsOpenPeer ==
  \A p \in Callers :
    (/\ pc[p] = "return"
     /\ call[p].event = TimeoutOf(flavor)
     /\ call[p].from \in OpenOf(flavor))
      => (call[p].err = NoError /\ state \notin OpenOf(flavor))

(* ================= building, encoding, decoding a message =============== *)
(* One behaviour builds a request from AVPs made by NewAVP, possibly        *)
(* answers it (NewResponseFromRequest, or the CEA of SendCEA), encodes the  *)
(* message and decodes the bytes again.                                     *)

MaxAVPs == 2

(* "localhost", "example.ims.com", "Diameter Server" as bytes *)
Str_localhost == <<108, 111, 99, 97, 108, 104, 111, 115, 116>>
Str_realm ==
  <<101, 120, 97, 109, 112, 108, 101, 46, 105, 109, 115, 46, 99, 111, 109>>
Str_product ==
  <<68, 105, 97, 109, 101, 116, 101, 114, 32, 83, 101, 114, 118, 101, 114>>

VENDOR_3GPP == 10415

(* The AVPs of the model: an Unsigned32 and a DiameterIdentity without the  *)
(* V flag, an Unsigned32 and an Address with it.                            *)
CodecAVPs ==
  {NewAVP(AVP_CODE_RESULT_CODE, Uint32Value(DIAMETER_SUCCESS),
          MANDATORY_FLAG, <<>>).avp,
   NewAVP(AVP_CODE_ORIGIN_HOST, StringValue(Str_localhost),
          MANDATORY_FLAG, <<>>).avp,
   NewAVP(AVP_CODE_VENDOR_ID, Uint32Value(VENDOR_3GPP),
          MANDATORY_FLAG + VENDOR_FLAG, <<VENDOR_3GPP>>).avp,
   NewAVP(AVP_CODE_HOST_IP_ADDRESS, IPValue(<<10, 0, 0, 1>>),
          MANDATORY_FLAG + VENDOR_FLAG, <<VENDOR_3GPP>>).avp}

AVPLists == UNION {[1..n -> CodecAVPs] : n \in 0..MaxAVPs}

(* values of rand.Uint32() *)
RequestIDs == {7, 16909060}

(* The message SendCEA returns for the request args. *)
SendCEAMessage(args) ==
  NewResponse(args,
    <<NewAVP(AVP_CODE_RESULT_CODE, Uint32Value(DIAMETER_SUCCESS),
             MANDATORY_FLAG, <<>>).avp,
      NewAVP(AVP_CODE_ORIGIN_HOST, StringValue(Str_localhost),
             MANDATORY_FLAG, <<>>).avp,
      NewAVP(AVP_CODE_ORIGIN_REALM, StringValue(Str_realm),
             MANDATORY_FLAG, <<>>).avp,
      NewAVP(AVP_CODE_VENDOR_ID, Uint32Value(VENDOR_3GPP),
             MANDATORY_FLAG, <<>>).avp,
      NewAVP(AVP_CODE_PRODUCT_NAME, StringValue(Str_product),
             MANDATORY_FLAG, <<>>).avp>>)

NotDecoded == [res |-> "none", err |-> "nil", msg |-> NoMessage]

CodecInit ==
  /\ flavor = "diameter"
  /\ state = NewFSM(flavor)
  /\ mu = NoHolder
  /\ pc = [p \in Callers |-> "idle"]
  /\ call = [p \in Callers |-> NoCall]
  /\ fresh = TRUE
  /\ cRequest = NoMessage /\ cMsg = NoMessage /\ cBytes = <<>>
  /\ cDecoded = NotDecoded /\ cStage = "new"
  /\ ReaderUnused /\ AcceptUnused /\ FnUnused /\ ClientUnused

codecFixed == <<vars, readerVars, acceptVars, fnVars, clientVars>>

(* NewCER(avps...) / NewDWR(avps...) *)
CodecNewRequest ==
  /\ cStage = "new"
  /\ \E code \in {COMMAND_CODE_CER, COMMAND_CODE_DWR}, avps \in AVPLists,
        hbh \in RequestIDs, e2e \in RequestIDs :
       cMsg' = NewRequest(code, avps, hbh, e2e)
  /\ cStage' = "request"
  /\ UNCHANGED <<cRequest, cBytes, cDecoded, codecFixed>>

(* NewResponseFromRequest(request, avps...) *)
CodecNewResponse ==
  /\ cStage = "request"
  /\ \E avps \in AVPLists : cMsg' = NewResponse(cMsg, avps)
  /\ cRequest' = cMsg
  /\ cStage' = "response"
  /\ UNCHANGED <<cBytes, cDecoded, codecFixed>>

(* SendCEA on a CER *)
CodecSendCEA ==
  /\ cStage = "request"
  /\ cMsg.Header.CommandCode = COMMAND_CODE_CER
  /\ cMsg' = SendCEAMessage(cMsg)
  /\ cRequest' = cMsg
  /\ cStage' = "cea"
  /\ UNCHANGED <<cBytes, cDecoded, codecFixed>>

(* msg.Encode() *)
CodecEncode ==
  /\ cStage \in {"request", "response", "cea"}
  /\ cBytes' = Encode(cMsg)
  /\ cStage' = "encoded"
  /\ UNCHANGED <<cRequest, cMsg, cDecoded, codecFixed>>

(* DecodeMessage(bytes) *)
CodecDecode ==
  /\ cStage = "encoded"
  /\ cDecoded' = DecodeMessage(cBytes)
  /\ cStage' = "decoded"
  /\ UNCHANGED <<cRequest, cMsg, cBytes, codecFixed>>

CodecNext ==
  \/ CodecNewRequest
  \/ CodecNewResponse
  \/ CodecSendCEA
  \/ CodecEncode
  \/ CodecDecode

SpecCodec == CodecInit /\ [][CodecNext]_codecVars


(* ------------------------------ round trip ------------------------------ *)
(* C17: decoding the bytes of an encoded message gives the message back:    *)
(* the same header fields and the same AVPs (code, flags, length, vendor    *)
(* id, data) in the same order, with and without the V flag.                *)
C17_DecodeOfEncodeIsIdentity ==
  cStage = "decoded" => (cDecoded.res = "ok" /\ cDecoded.msg = cMsg)


(* ---------------------------- message length ---------------------------- *)
(* C18: the bytes Encode returns for a message of NewRequest or             *)
(* NewResponseFromRequest are as many as its Header.MessageLength, which is *)
(* the value in the length field of those bytes.                            *)
C18_EncodedLengthIsMessageLength ==
  cStage \in {"encoded", "decoded"} =>
    /\ Len(cBytes) = cMsg.Header.MessageLength
    /\ FromBytes(Slice(cBytes, 1, 4)) = cMsg.Header.MessageLength

EncodedStart(avps, i) == Len(EncodeAVPs(SubSeq(avps, 1, i - 1)))

RECURSIVE DecoderStart(_, _)
DecoderStart(avps, i) ==
  IF i = 1 THEN 0
  ELSE DecoderStart(avps, i - 1) + avps[i - 1].AVPlength
         + getPadding(avps[i - 1].AVPlength)

(* C20: in an encoded message every AVP starts a multiple of 4 bytes after  *)
(* the one before it, and the step of the decoder, Length plus padding,     *)
(* lands on the first byte of the next AVP.                                 *)
C20_AVPsStartWhereDecoderSteps ==
  cStage = "encoded" =>
    \A i \in 1..(Len(cMsg.AVPs) + 1) :
      /\ EncodedStart(cMsg.AVPs, i) % 4 = 0
      /\ DecoderStart(cMsg.AVPs, i) = EncodedStart(cMsg.AVPs, i)


(* ============ single calls of the functions of package message ========== *)
(* One behaviour hands one argument to one function and keeps what it       *)
(* returned.                                                                *)

MaxLengthField == 14
MaxAVPBytes == 16

(* The first n bytes of an AVP whose header holds code, flags and the       *)
(* Length field length, followed by the bytes 1, 2, 3, ...                  *)
AVPBytes(code, flags, length, n) ==
  SubSeq(ToBytes(code, 4) \o <<flags>> \o ToBytes(length, 3)
           \o [i \in 1..MaxAVPBytes |-> i], 1, n)

AVPInputs ==
  {[kind |-> "avp", code |-> code, flags |-> flags, length |-> length,
    bytes |-> AVPBytes(code, flags, length, n)] :
     code \in {AVP_CODE_RESULT_CODE, AVP_CODE_ORIGIN_HOST},
     flags \in {MANDATORY_FLAG, MANDATORY_FLAG + VENDOR_FLAG},
     length \in 0..MaxLengthField, n \in 0..MaxAVPBytes}

NotReturned == [res |-> "none"]

(* A message as a peer sends it: MessageLength is the number of its bytes.  *)
WireMessage(avps) ==
  DiameterMessage(
    DiameterHeader(DIAMETER_VERSION,
                   DIAMETER_HEADER_SIZE + Len(EncodeAVPs(avps)),
                   COMMAND_FLAG_REQUEST, COMMAND_CODE_CER, 0, 1, 2),
    avps)

ResultCodeAVP(v) ==
  NewAVP(AVP_CODE_RESULT_CODE, Uint32Value(v), MANDATORY_FLAG, <<>>).avp

OriginHostAVP ==
  NewAVP(AVP_CODE_ORIGIN_HOST, StringValue(Str_localhost),
         MANDATORY_FLAG, <<>>).avp

(* Every prefix of the bytes of three messages. *)
MessageInputs ==
  UNION {{[kind |-> "message",
           length |-> WireMessage(avps).Header.MessageLength,
           bytes |-> SubSeq(Encode(WireMessage(avps)), 1, n)] :
            n \in 0..Len(Encode(WireMessage(avps)))} :
         avps \in {<<>>, <<ResultCodeAVP(DIAMETER_SUCCESS)>>,
                   <<ResultCodeAVP(DIAMETER_SUCCESS), OriginHostAVP>>}}

(* uint32 values; 4294967295 is held as -1 (see FromBytes). *)
Uint32Inputs ==
  {[kind |-> "uint32", u32 |-> v] :
     v \in {0, 1, 255, 256, 2001, 65536, 123456, 16909060, 2147483647, -1}}

MaxAddressBytes == 19

(* The first n bytes of an address family followed by 10, 11, 12, ...       *)
AddressBytesInputs ==
  {[kind |-> "address bytes", family |-> family,
    bytes |-> SubSeq(ToBytes(family, 2)
                       \o [i \in 1..MaxAddressBytes |-> 9 + i], 1, n)] :
     family \in {0, 1, 2, 3, 257}, n \in 0..MaxAddressBytes}

IPv4Input == <<192, 168, 1, 1>>
IPv6Input == <<32, 1, 13, 184, 0, 0, 0, 0, 0, 0, 255, 0, 0, 66, 131, 41>>

AddressInputs ==
  {[kind |-> "address", ip |-> ip] : ip \in {IPv4Input, IPv6Input}}

(* Answers that ReadCEA is given. *)
CEAInputs ==
  {[kind |-> "cea",
    msg |-> NewResponse(NewRequest(code, <<>>, 1, 2), avps)] :
     code \in {COMMAND_CODE_CER, COMMAND_CODE_DWR},
     avps \in UNION {[1..n -> {ResultCodeAVP(DIAMETER_SUCCESS),
                               ResultCodeAVP(DIAMETER_UNABLE_TO_COMPLY),
                               OriginHostAVP}] : n \in 0..MaxAVPs}}

FnInputs ==
  AVPInputs \cup MessageInputs \cup Uint32Inputs \cup AddressBytesInputs
    \cup AddressInputs \cup CEAInputs

(* A ReadCEA that takes the last Result-Code AVP instead of the first.      *)
ReadCEA_LastResultCode(cea) ==
  LET rcs == ResultCodeAVPs(cea)
      last == CHOOSE i \in rcs : \A j \in rcs : j <= i
  IN IF cea.Header.CommandCode # COMMAND_CODE_CER
     THEN [err |-> "InvalidCommandCodeError", code |-> 0, avps |-> <<>>]
     ELSE IF rcs = {}
     THEN [err |-> "Result-Code AVP not found", code |-> 0, avps |-> <<>>]
     ELSE IF cea.AVPs[last].Data.u32 # DIAMETER_SUCCESS
     THEN [err |-> "CEA failed with Result-Code",
           code |-> cea.AVPs[last].Data.u32, avps |-> <<>>]
     ELSE [err |-> "nil", code |-> 0, avps |-> cea.AVPs]

(* ReadCEA: the command code, then GetResultCode, then its value.           *)
ReadCEA(cea) ==
  IF cea.Header.CommandCode # COMMAND_CODE_CER
  THEN [err |-> "InvalidCommandCodeError", code |-> 0, avps |-> <<>>]
  ELSE IF GetResultCode(cea).err # "nil"
  THEN [err |-> GetResultCode(cea).err, code |-> 0, avps |-> <<>>]
  ELSE IF GetResultCode(cea).code # DIAMETER_SUCCESS
  THEN [err |-> "CEA failed with Result-Code",
        code |-> GetResultCode(cea).code, avps |-> <<>>]
  ELSE [err |-> "nil", code |-> 0, avps |-> cea.AVPs]

FnInit ==
  /\ flavor = "diameter"
  /\ state = NewFSM(flavor)
  /\ mu = NoHolder
  /\ pc = [p \in Callers |-> "idle"]
  /\ call = [p \in Callers |-> NoCall]
  /\ fresh = TRUE
  /\ fnName = "none"
  /\ fnArg \in FnInputs
  /\ fnRet = NotReturned
  /\ ReaderUnused /\ CodecUnused /\ AcceptUnused /\ ClientUnused

fnFixed == <<vars, readerVars, codecVars, acceptVars, clientVars>>

Returns(name, ret) ==
  /\ fnName' = name
  /\ fnRet' = ret
  /\ UNCHANGED <<fnArg, fnFixed>>

CallDecodeAVP ==
  /\ fnName = "none" /\ fnArg.kind = "avp"
  /\ Returns("DecodeAVP", DecodeAVP(fnArg.bytes))

CallDecodeMessage ==
  /\ fnName = "none" /\ fnArg.kind = "message"
  /\ Returns("DecodeMessage", DecodeMessage(fnArg.bytes))

CallEncode32 ==
  /\ fnName = "none" /\ fnArg.kind = "uint32"
  /\ Returns("encode32", [res |-> "ok", bytes |-> encode32(fnArg.u32)])

(* decode32(encoded, uint32(0)) on what encode32 returned *)
CallDecode32 ==
  /\ fnName = "encode32"
  /\ Returns("decode32", [res |-> "ok", bytes |-> fnRet.bytes,
                          u32 |-> decode32(fnRet.bytes)])

(* (&Address{}).Decode(data) *)
CallAddressDecode ==
  /\ fnName = "none" /\ fnArg.kind = "address bytes"
  /\ Returns("Address.Decode", DataDecode("Address", fnArg.bytes))

(* address.SetData(ip), address.Encode() *)
CallAddressEncode ==
  /\ fnName = "none" /\ fnArg.kind = "address"
  /\ Returns("Address.Encode",
             [res |-> "ok",
              bytes |-> DataEncode(SetData("Address", IPValue(fnArg.ip)).data)])

CallReadCEA ==
  /\ fnName = "none" /\ fnArg.kind = "cea"
  /\ Returns("ReadCEA", ReadCEA(fnArg.msg))

FnNext ==
  \/ CallDecodeAVP
  \/ CallDecodeMessage
  \/ CallEncode32
  \/ CallDecode32
  \/ CallAddressDecode
  \/ CallAddressEncode
  \/ CallReadCEA

SpecFn == FnInit /\ [][FnNext]_fnVars

(* ----------------------------- malformed AVPs --------------------------- *)
(* C21: DecodeAVP returns an error, without a panic, for every input whose  *)
(* Length field is below 8, or below 12 with the V flag, or larger than the *)
(* bytes there are (an input too short to hold the header included).        *)
C21_DecodeAVPRejectsBadLength ==
  (/\ fnName = "DecodeAVP"
   /\ \/ Len(fnArg.bytes) < AVPHeaderLength
      \/ fnArg.length < AVPHeaderLength
      \/ (isFlagSet(fnArg.flags, VENDOR_FLAG)
            /\ fnArg.length < AVPHeaderLengthWithV)
      \/ fnArg.length > Len(fnArg.bytes))
    => fnRet.res = "err"


(* ----------------------------- short messages --------------------------- *)
(* C22: DecodeMessage returns no message for fewer than 20 bytes and none   *)
(* for fewer bytes than the header's MessageLength; the second case is      *)
(* reported as InvalidMessageLengthError and the first as another error.    *)
C22_DecodeMessageLengthErrors ==
  fnName = "DecodeMessage" =>
    /\ Len(fnArg.bytes) < DIAMETER_HEADER_SIZE =>
         (fnRet.res = "err" /\ fnRet.err # "InvalidMessageLengthError")
    /\ (Len(fnArg.bytes) >= DIAMETER_HEADER_SIZE
          /\ Len(fnArg.bytes) < fnArg.length) =>
         (fnRet.res = "err" /\ fnRet.err = "InvalidMessageLengthError")

(* ------------------------------ integers -------------------------------- *)
(* C23: the 4 bytes written for a uint32 v are v's bytes, most significant  *)
(* first: v = b[0]*2^24 + b[1]*2^16 + b[2]*2^8 + b[3].                      *)
C23_Uint32IsBigEndian ==
  fnName = "encode32" => fnRet.bytes = ToBytes(fnArg.u32, int32Length)

C25_AddressDecodeAndEncode ==
  /\ fnName = "Address.Decode" =>
       IF Len(fnArg.bytes) = 6 /\ fnArg.family = AddressFamilyIPv4Byte
       THEN /\ fnRet.res = "ok"
            /\ isIPv4(fnRet.data)
            /\ fnRet.data.octets = SubSeq(fnArg.bytes, 3, 6)
       ELSE IF Len(fnArg.bytes) = 18 /\ fnArg.family = AddressFamilyIPv6Byte
       THEN /\ fnRet.res = "ok"
            /\ ~isIPv4(fnRet.data)
            /\ fnRet.data.octets = SubSeq(fnArg.bytes, 3, 18)
       ELSE fnRet.res = "err"
  /\ (fnName = "Address.Encode" /\ Len(fnArg.ip) = IPv4AddressLength) =>
       fnRet.bytes = <<0, 1>> \o fnArg.ip

(* ------------------------------- ReadCEA -------------------------------- *)
(* C26: ReadCEA returns the AVPs exactly when the command code is 257 and   *)
(* the first Result-Code AVP holds 2001; otherwise it returns no AVPs and   *)
(* an invalid-command-code error for another command code, a                *)
(* result-code-missing error without a Result-Code AVP, and a failure error *)
(* with the code for another Result-Code value.                             *)
C26_ReadCEAOutcomes ==
  fnName = "ReadCEA" =>
    LET m == fnArg.msg
        rcs == {i \in 1..Len(m.AVPs) : m.AVPs[i].Code = AVP_CODE_RESULT_CODE}
        first == CHOOSE i \in rcs : \A j \in rcs : i <= j
    IN IF m.Header.CommandCode # COMMAND_CODE_CER
       THEN fnRet.err = "InvalidCommandCodeError" /\ fnRet.avps = <<>>
       ELSE IF rcs = {}
       THEN fnRet.err = "Result-Code AVP not found" /\ fnRet.avps = <<>>
       ELSE IF m.AVPs[first].Data.u32 # DIAMETER_SUCCESS
       THEN /\ fnRet.err = "CEA failed with Result-Code"
            /\ fnRet.code = m.AVPs[first].Data.u32
            /\ fnRet.avps = <<>>
       ELSE fnRet.err = "nil" /\ fnRet.avps = m.AVPs

(* ReadCEA returned the AVPs of an answer whose Result-Code 2001 is         *)
(* followed by a second Result-Code AVP.                                    *)
C26_Witness ==
  /\ fnName = "ReadCEA"
  /\ fnArg.msg.Header.CommandCode = COMMAND_CODE_CER
  /\ Len(fnArg.msg.AVPs) = 2
  /\ fnArg.msg.AVPs[2] = ResultCodeAVP(DIAMETER_UNABLE_TO_COMPLY)
  /\ fnRet.err = "nil"
  /\ fnRet.avps = fnArg.msg.AVPs


C28_IOpenOnlyBySuccessfulCEA ==
  \A p \in Callers :
    (/\ flavor = "diameter"
     /\ pc[p] = "return"
     /\ call[p].res = "ok"
     /\ call[p].from # IOpen
     /\ call[p].to = IOpen)
      => /\ call[p].event = RcvCEA
         /\ ~call[p].arg.isNil
         /\ call[p].arg.hasRC
         /\ call[p].arg.rc = DIAMETER_SUCCESS


(* ------------------- the goroutine of a timed-out Accept ---------------- *)
(* C29: no connection accepted on an SCTP listener is lost and no goroutine *)
(* stays blocked: whatever the goroutine of an Accept call that has         *)
(* returned got from the native accept, also after the timeout, has been    *)
(* received by an Accept call and the goroutine has ended.                  *)
C29_NoAcceptedConnectionLost ==
  protocol = Proto_SCTP =>
    \A i \in 1..Len(result) :
      worker[i].stage \in {"sending", "done"}
        => /\ worker[i].stage = "done"
           /\ \E j \in 1..Len(result) : result[j] = worker[i].out


(* ====================== the client: Connect and Run ===================== *)
(* NewClient, then calls of InitializeFSM, Connect and Disconnect by the    *)
(* code that uses the client, and the Run goroutines that Connect starts.   *)
(* An FSM object is the table it holds (that of InitializeFSM or none), its *)
(* state and its mutex.  Only EventStart and EventDisconnect are ever sent  *)
(* on EventChan, and from StateClosed and StateWaitConnAck the table has a  *)
(* row for them in (StateClosed, EventStart) alone: sendConnRequest is the  *)
(* one helper a Run loop runs.                                              *)
MaxUserCalls == 3

(* client.go 12 *)
eventBufferSize == 10

(* fsm.NewFSM(fsm.StateClosed): no transition registered. *)
NewFSMObject == [table |-> FALSE, state |-> StateClosed, locked |-> FALSE]

(* c.fsm = fsm.NewFSM(StateClosed) and the AddTransition calls. *)
InitializedFSM == [table |-> TRUE, state |-> StateClosed, locked |-> FALSE]

(* f.transitions[f.state][event] *)
RowsOf(f, e) == IF f.table THEN Lookup("client", f.state, e) ELSE {}

(* go c.Run(): the goroutine arrives at the receive on c.EventChan. *)
NewRun == [pc |-> "recv", event |-> "", f |-> 0, to |-> ""]

(* What one Trigger call of a Run loop did: the FSM object it ran on, the   *)
(* error it returned, the connections it opened and the Run loops it        *)
(* started.                                                                 *)
Triggered(l, err, to, opened) ==
  [event |-> loops[l].event, f |-> loops[l].f,
   table |-> heap[loops[l].f].table, from |-> heap[loops[l].f].state,
   err |-> err, to |-> to, opened |-> opened, started |-> opened]

ClientInit ==
  /\ flavor = "client"
  /\ state = NewFSM(flavor)
  /\ mu = NoHolder
  /\ pc = [p \in Callers |-> "idle"]
  /\ call = [p \in Callers |-> NoCall]
  /\ fresh = TRUE
  /\ ReaderUnused /\ CodecUnused /\ AcceptUnused /\ FnUnused
  /\ heap = <<NewFSMObject>>
  /\ cFsm = 1
  /\ cConn = 0
  /\ dialed = 0
  /\ EventChan = <<>>
  /\ loops = <<>>
  /\ user = [pc |-> "idle", calls |-> 0, initialized |-> FALSE]
  /\ connected = <<>>
  /\ triggered = <<>>

clientFixed == <<vars, readerVars, codecVars, acceptVars, fnVars>>

(* Connect after the dial: c.conn = conn; c.fsm = fsm.NewFSM(StateClosed);  *)
(* go c.Run().  h and ls are the FSM objects and the goroutines as the      *)
(* caller leaves them.                                                      *)
ConnectOpens(h, ls) ==
  /\ dialed' = dialed + 1
  /\ cConn' = dialed + 1
  /\ heap' = Append(h, NewFSMObject)
  /\ cFsm' = Len(h) + 1
  /\ loops' = Append(ls, NewRun)

(* c.InitializeFSM() *)
UserInitializeFSM ==
  /\ user.pc = "idle"
  /\ user.calls < MaxUserCalls
  /\ heap' = Append(heap, InitializedFSM)
  /\ cFsm' = Len(heap) + 1
  /\ user' = [user EXCEPT !.calls = @ + 1, !.initialized = TRUE]
  /\ UNCHANGED <<cConn, dialed, EventChan, loops, connected, triggered,
                 clientFixed>>

(* c.Connect() up to the send on EventChan; a failed dial returns the error *)
UserConnect ==
  /\ user.pc = "idle"
  /\ user.calls < MaxUserCalls
  /\ \/ /\ user' = [user EXCEPT !.calls = @ + 1]
        /\ UNCHANGED <<heap, cFsm, cConn, dialed, loops>>
     \/ /\ user' = [user EXCEPT !.calls = @ + 1, !.pc = "send"]
        /\ ConnectOpens(heap, loops)
  /\ UNCHANGED <<EventChan, connected, triggered, clientFixed>>

(* c.EventChan <- EventStart; return nil *)
UserConnectSends ==
  /\ user.pc = "send"
  /\ Len(EventChan) < eventBufferSize
  /\ EventChan' = Append(EventChan, EventStart)
  /\ connected' = Append(connected, [initialized |-> user.initialized,
                                     table |-> heap[cFsm].table,
                                     state |-> heap[cFsm].state])
  /\ user' = [user EXCEPT !.pc = "idle"]
  /\ UNCHANGED <<heap, cFsm, cConn, dialed, loops, triggered, clientFixed>>

(* c.Disconnect(): c.EventChan <- EventDisconnect *)
UserDisconnect ==
  /\ user.pc = "idle"
  /\ user.calls < MaxUserCalls
  /\ Len(EventChan) < eventBufferSize
  /\ EventChan' = Append(EventChan, EventDisconnect)
  /\ user' = [user EXCEPT !.calls = @ + 1]
  /\ UNCHANGED <<heap, cFsm, cConn, dialed, loops, connected, triggered,
                 clientFixed>>

(* Run: event := <-c.EventChan, and c.fsm is read for the call of Trigger.  *)
RunReceives(l) ==
  /\ loops[l].pc = "recv"
  /\ EventChan # <<>>
  /\ loops' = [loops EXCEPT ![l] = [pc |-> "lock", event |-> Head(EventChan),
                                    f |-> cFsm, to |-> ""]]
  /\ EventChan' = Tail(EventChan)
  /\ UNCHANGED <<heap, cFsm, cConn, dialed, user, connected, triggered,
                 clientFixed>>

(* Trigger: f.mu.Lock(), the lookup, and the action up to the send of       *)
(* Connect.  No row, or a failed dial: Trigger returns the error.           *)
RunTriggers(l) ==
  /\ loops[l].pc = "lock"
  /\ ~heap[loops[l].f].locked
  /\ LET f == loops[l].f
         rows == RowsOf(heap[f], loops[l].event)
     IN IF rows = {}
        THEN /\ triggered' = Append(triggered,
                  Triggered(l, errNoTransitionRegisteredForState,
                            heap[f].state, 0))
             /\ loops' = [loops EXCEPT ![l].pc = "recv"]
             /\ UNCHANGED <<heap, cFsm, cConn, dialed>>
        ELSE \E t \in rows :
               /\ t.acts = <<"sendConnRequest">>
               /\ \/ /\ triggered' = Append(triggered,
                          Triggered(l, ActionError("sendConnRequest"),
                                    heap[f].state, 0))
                     /\ loops' = [loops EXCEPT ![l].pc = "recv"]
                     /\ UNCHANGED <<heap, cFsm, cConn, dialed>>
                  \/ /\ ConnectOpens([heap EXCEPT ![f].locked = TRUE],
                                     [loops EXCEPT ![l].pc = "send",
                                                   ![l].to = t.to])
                     /\ UNCHANGED triggered
  /\ UNCHANGED <<EventChan, user, connected, clientFixed>>

(* The Connect that sendConnRequest called sends EventStart and returns     *)
(* nil; Trigger assigns f.state = transition.To and unlocks f.mu.           *)
RunConnectSends(l) ==
  /\ loops[l].pc = "send"
  /\ Len(EventChan) < eventBufferSize
  /\ EventChan' = Append(EventChan, EventStart)
  /\ triggered' = Append(triggered, Triggered(l, NoError, loops[l].to, 1))
  /\ heap' = [heap EXCEPT ![loops[l].f].state = loops[l].to,
                          ![loops[l].f].locked = FALSE]
  /\ loops' = [loops EXCEPT ![l].pc = "recv"]
  /\ UNCHANGED <<cFsm, cConn, dialed, user, connected, clientFixed>>

ClientNext ==
  \/ UserInitializeFSM
  \/ UserConnect
  \/ UserConnectSends
  \/ UserDisconnect
  \/ \E l \in 1..Len(loops) :
       RunReceives(l) \/ RunTriggers(l) \/ RunConnectSends(l)

SpecClient == ClientInit /\ [][ClientNext]_clientVars

(* ---------------------- Connect and the Start event --------------------- *)
(* C30: when a Connect called after InitializeFSM returns nil, c.fsm is in  *)
(* StateClosed with the table of InitializeFSM; a Run loop's Trigger of     *)
(* EventStart then returns nil with the FSM in StateWaitConnAck, and it     *)
(* opens no connection and starts no Run loop.                              *)
C30_ConnectKeepsTheTable ==
  /\ \A i \in 1..Len(connected) :
       connected[i].initialized
         => connected[i].table /\ connected[i].state = StateClosed
  /\ \A i \in 1..Len(triggered) :
       (user.initialized /\ triggered[i].event = EventStart)
         => /\ triggered[i].err = NoError
            /\ triggered[i].to = StateWaitConnAck
            /\ triggered[i].opened = 0
            /\ triggered[i].started = 0

====
